---- MODULE Spec2Model ----
(***************************************************************************)
(* RS05 CAN tools: the ID tool (src/main.py) and the CSP angle tool        *)
(* (src/move.py).  One process runs one of the two tools; `tool` says      *)
(* which.  The transport (python-can bus) is the environment: every send   *)
(* succeeds or raises can.CanError, every recv returns a frame, times out  *)
(* or raises.                                                              *)
(***************************************************************************)
EXTENDS Integers, Sequences, FiniteSets, TLC

VARIABLES
    tool,            \* "id" (main.py) or "csp" (move.py)
    pc,              \* "start", "prompt", "probe", "window", "exited"
    bus,             \* transport handle: "none", "open", "closed"
    shutdowns,       \* number of bus.shutdown() calls made
    exitKind,        \* how the process ended ("" while it runs)
    last_found_id,   \* main.py global
    current_id,      \* move.py global
    limit_spd,       \* move.py global
    found_this_scan, \* move.py scan_ids local
    id_to_scan,      \* loop variable of the probe loop (i / id_to_scan)
    elapsed,         \* time.monotonic() - t0, in clock ticks of TickMs
    caller,          \* who called scan_ids: "startup", "G", "S"
    cmd,             \* cmd_parts of the line being (or last) processed
    out,             \* what the last operation reported to the operator
    sent,            \* frames handed to bus.send since the line was read
    oks,             \* outcomes of the sends whose result the code keeps
    probeFailed,     \* some probe send of the running probe loop raised
    preScanAddr,     \* session address when the running/last scan began
    rxQual,          \* addresses of the GET_ID replies the scan received
    lastQual,        \* address of the last of them, -1 when none
    rxJunk,          \* the scan received a frame that is no GET_ID reply
    ioAfterRelease,  \* a send or recv was made on a handle not open
    lastScanQual,    \* lastQual of the scan that returned most recently
    codec            \* the frame codec exercised on its own (CodecSpec)

vars == <<tool, pc, bus, shutdowns, exitKind, last_found_id, current_id,
          limit_spd, found_this_scan, id_to_scan, elapsed, caller, cmd, out,
          sent, oks, probeFailed, preScanAddr, rxQual, lastQual, rxJunk,
          ioAfterRelease, lastScanQual, codec>>

-----------------------------------------------------------------------------
(* Protocol constants *)

COMM_GET_ID == 0
COMM_SET_ID == 7
COMM_RUN_EN == 3
COMM_WRITE_ONE == 18
RESP_MARKER == 254
MASTER_ID == 253
IDX_runmode == 28677
IDX_loc_ref == 28694
IDX_limit_spd == 28695
NOT_FOUND == 255
CSP_INITIAL_ID == 127
NUM_CANDIDATES == 128
ID_WAIT_MS == 1500
CSP_WAIT_MS == 800
CSP_RUNMODE == 5

-----------------------------------------------------------------------------
(* Integer bit operations (Python ints, non-negative operands) *)

RECURSIVE BitOr(_, _)
BitOr(a, b) ==
    IF a = 0 THEN b
    ELSE IF b = 0 THEN a
    ELSE (IF (a % 2 = 1) \/ (b % 2 = 1) THEN 1 ELSE 0)
         + 2 * BitOr(a \div 2, b \div 2)

\* x & (2^k - 1)
AndMask(x, m) == x % (m + 1)

\* variant: the mode is masked to four bits
C11_Mut_build_ext_id(mode, data16, id8) ==
    BitOr(BitOr(AndMask(mode, 15) * 16777216, data16 * 256), id8)

\* ((mode & 0x1F) << 24) | (data16 << 8) | id8
build_ext_id(mode, data16, id8) ==
    BitOr(BitOr(AndMask(mode, 31) * 16777216, data16 * 256), id8)

\* mode = (extid >> 24) & 0x1F ; data16 = (extid >> 8) & 0xFFFF ; id8 = extid & 0xFF
ExtMode(extid) == AndMask(extid \div 16777216, 31)
ExtData16(extid) == AndMask(extid \div 256, 65535)
ExtId8(extid) == AndMask(extid, 255)

-----------------------------------------------------------------------------
(* Python floats.  Fin(n) is the finite value n * 10^-6.  Sci(m, e) is the  *)
(* finite value (m / 1000) * 10^e, 1000 <= m <= 9999, used for magnitudes   *)
(* beyond the integer range.  NaN is the IEEE not-a-number.                 *)

Fin(n) == [k |-> "fin", n |-> n, e |-> 0]
Sci(m, e) == [k |-> "sci", n |-> m, e |-> e]
NaN == [k |-> "nan", n |-> 0, e |-> 0]
NoFloat == [k |-> "none", n |-> 0, e |-> 0]

\* v < 0 (false for NaN)
FloatNeg(v) == (v.k = "fin" /\ v.n < 0) \/ (v.k = "sci" /\ v.n < 0)

\* deg * math.pi / 180.0
DegToRad(deg) ==
    CASE deg.k = "fin" ->
           Fin(((deg.n \div 1000) * 17453) \div 1000
               + ((deg.n \div 1000) * 293) \div 1000000)
      [] deg.k = "sci" ->
           LET t == (deg.n * 17453) \div 1000
           IN  IF t < 100000 THEN Sci(t \div 10, deg.e - 2)
                             ELSE Sci(t \div 100, deg.e - 1)
      [] OTHER -> deg

\* struct.pack('<f', val) raises OverflowError: a finite double whose
\* magnitude rounds beyond the largest single (3.4028235e38)
PackOverflows(val) ==
    val.k = "sci" /\ (val.e > 38 \/ (val.e = 38 /\ val.n > 3402))

\* float_to_le_bytes: the four bytes of the single-precision image, kept as
\* the value they encode
float_to_le_bytes(val) == [k |-> "f32", v |-> val]

\* bytes 4..7 of a payload that holds one byte value and three zero bytes
ByteTail(b) == [k |-> "u8", v |-> Fin(b)]

-----------------------------------------------------------------------------
(* Frames: can.Message(arbitration_id, is_extended_id, dlc, data).  data is *)
(* bytes 0..3 (head) and bytes 4..7 (tail).                                 *)

Message(arbitration_id, head, tail) ==
    [arbitration_id |-> arbitration_id, is_extended_id |-> TRUE, dlc |-> 8,
     head |-> head, tail |-> tail]

ZeroHead == <<0, 0, 0, 0>>

\* data16 = (MASTER_ID << 8) | 0x00
MasterData16 == BitOr(MASTER_ID * 256, 0)

\* main.py send_get_id / move.py scan_ids probe
GetIdFrame(target_can_id) ==
    Message(build_ext_id(COMM_GET_ID, MasterData16, target_can_id),
            ZeroHead, ByteTail(0))

\* variant: current and new address change places
C7_Mut_SetIdFrame(cur, new_id) ==
    Message(build_ext_id(COMM_SET_ID, BitOr(cur * 256, MASTER_ID), new_id),
            ZeroHead, ByteTail(0))

\* variant: the communication type of the frame is 0
C19_Mut_SetIdFrame(cur, new_id) ==
    Message(build_ext_id(COMM_GET_ID, BitOr(new_id * 256, MASTER_ID), cur),
            ZeroHead, ByteTail(0))

\* main.py send_set_id
SetIdFrame(cur, new_id) ==
    Message(build_ext_id(COMM_SET_ID, BitOr(new_id * 256, MASTER_ID), cur),
            ZeroHead, ByteTail(0))

\* move.py send_enable
EnableFrame(id) ==
    Message(build_ext_id(COMM_RUN_EN, MasterData16, id), ZeroHead, ByteTail(0))

\* move.py write_param_f (the frame it builds when the pack succeeds)
WriteFFrame(index, val, id) ==
    Message(build_ext_id(COMM_WRITE_ONE, MasterData16, id),
            <<AndMask(index, 255), AndMask(index \div 256, 255), 0, 0>>,
            float_to_le_bytes(val))

\* move.py write_param_u8
WriteU8Frame(index, val, id) ==
    Message(build_ext_id(COMM_WRITE_ONE, MasterData16, id),
            <<AndMask(index, 255), AndMask(index \div 256, 255), 0, 0>>,
            ByteTail(AndMask(val, 255)))

-----------------------------------------------------------------------------
(* Inbound frames: what bus.recv can return during a scan window *)

RxMessage(arbitration_id, ext, dlc) ==
    [arbitration_id |-> arbitration_id, is_extended_id |-> ext, dlc |-> dlc]

\* a device's GET_ID reply for address a; hi is the upper byte of data16
Reply(a, hi) == RxMessage(build_ext_id(COMM_GET_ID, hi * 256 + a, RESP_MARKER), TRUE, 8)

ReplyAddrs == {16, 254, 255}

RxFrames ==
    { Reply(a, 0) : a \in ReplyAddrs }
    \cup { Reply(16, 18),
           RxMessage(build_ext_id(COMM_GET_ID, 34, RESP_MARKER), FALSE, 8),
           RxMessage(build_ext_id(COMM_GET_ID, 34, RESP_MARKER), TRUE, 4),
           RxMessage(build_ext_id(2, 34, RESP_MARKER), TRUE, 8),
           RxMessage(build_ext_id(COMM_GET_ID, 34, MASTER_ID), TRUE, 8),
           RxMessage(GetIdFrame(34).arbitration_id, TRUE, 8) }

-----------------------------------------------------------------------------
(* Input lines, after strip() and split(): a sequence of parts, each part a *)
(* sequence of characters                                                   *)

UpperChar(c) ==
    CASE c = "g" -> "G" [] c = "s" -> "S" [] c = "q" -> "Q"
      [] c = "l" -> "L" [] c = "a" -> "A" [] c = "b" -> "B"
      [] c = "c" -> "C" [] c = "z" -> "Z" [] OTHER -> c

\* str.upper()
Upper(part) == [j \in 1..Len(part) |-> UpperChar(part[j])]

HexDigits == {"0", "1", "2", "3", "4", "5", "6", "7", "8", "9",
              "a", "b", "c", "d", "e", "f", "A", "B", "C", "D", "E", "F"}

HexVal(c) ==
    CASE c = "0" -> 0 [] c = "1" -> 1 [] c = "2" -> 2 [] c = "3" -> 3
      [] c = "4" -> 4 [] c = "5" -> 5 [] c = "6" -> 6 [] c = "7" -> 7
      [] c = "8" -> 8 [] c = "9" -> 9
      [] c \in {"a", "A"} -> 10 [] c \in {"b", "B"} -> 11
      [] c \in {"c", "C"} -> 12 [] c \in {"d", "D"} -> 13
      [] c \in {"e", "E"} -> 14 [] c \in {"f", "F"} -> 15

RECURSIVE HexMagnitude(_)
HexMagnitude(ds) ==
    IF ds = <<>> THEN 0
    ELSE 16 * HexMagnitude(SubSeq(ds, 1, Len(ds) - 1)) + HexVal(ds[Len(ds)])

HexBody(tok) == IF tok # <<>> /\ tok[1] \in {"-", "+"} THEN Tail(tok) ELSE tok

\* int(hex_str, 16) raises ValueError
HexInvalid(tok) ==
    HexBody(tok) = <<>> \/ \E j \in 1..Len(HexBody(tok)) : HexBody(tok)[j] \notin HexDigits

\* int(hex_str, 16) for a token that parses
HexInt(tok) ==
    IF tok[1] = "-" THEN 0 - HexMagnitude(HexBody(tok)) ELSE HexMagnitude(HexBody(tok))

HexTokens == { <<"1", "0">>, <<"2", "2">>, <<"8", "0">>,
               <<"C", "8">>, <<"-", "5">>, <<"z", "z">> }

\* float(s) for the tokens of LimitTokens and AngleTokens; NoFloat stands
\* for ValueError
ParseFloat(tok) ==
    CASE tok = <<"9", "0">> -> Fin(90000000)
      [] tok = <<"-", "4", "5", ".", "5">> -> Fin(-45500000)
      [] tok = <<"2", ".", "5">> -> Fin(2500000)
      [] tok = <<"-", "1", ".", "5">> -> Fin(-1500000)
      [] tok = <<"3", "e", "3", "8">> -> Sci(3000, 38)
      [] tok = <<"1", "e", "3", "9">> -> Sci(1000, 39)
      [] tok = <<"1", "e", "4", "1">> -> Sci(1000, 41)
      [] tok = <<"n", "a", "n">> -> NaN
      [] OTHER -> NoFloat

LimitTokens == { <<"2", ".", "5">>, <<"-", "1", ".", "5">>, <<"3", "e", "3", "8">>,
                 <<"1", "e", "3", "9">>, <<"n", "a", "n">>, <<"a", "b", "c">> }

AngleTokens == { <<"9", "0">>, <<"-", "4", "5", ".", "5">>, <<"1", "e", "3", "9">>,
                 <<"1", "e", "4", "1">>, <<"a", "b", "c">> }

IdLines ==
    { <<>>, << <<"g">> >>, << <<"S">> >>, << <<"Q">> >>, << <<"X">> >>,
      << <<"s">>, <<"7", "f">>, <<"1", "0">> >> }
    \cup { << <<"S">>, t >> : t \in HexTokens }

CspLines ==
    { <<>>, << <<"G">> >>, << <<"L">> >>, << <<"A">> >>, << <<"q">> >>,
      << <<"X">> >> }
    \cup { << <<"L">>, t >> : t \in LimitTokens }
    \cup { << <<"a">>, t >> : t \in AngleTokens }

-----------------------------------------------------------------------------
(* The monotonic clock is read in ticks of TickMs.  One bus.recv call     *)
(* (at most 10 ms when it times out, less when a frame arrives) carries the *)
(* reading over at most one tick boundary.                                  *)

TickMs == 250

\* variant: the clock read after a receive call never differs from the one before
C17_Mut_ClockSteps == {0}

ClockSteps == {0, 1}

-----------------------------------------------------------------------------
(* Observation of the transport (history variables, not program state) *)

\* the handle is used by this send or recv although it is not open
IoFlag == ioAfterRelease \/ bus # "open"

\* section 4.1 classification of an inbound frame as a GET_ID reply
IsGetIdReply(f) ==
    /\ f.is_extended_id
    /\ f.dlc = 8
    /\ (f.arbitration_id \div 16777216) % 32 = 0
    /\ f.arbitration_id % 256 = 254

\* the device address a reply carries: data16 & 0xFF
ReplyAddress(f) == (f.arbitration_id \div 256) % 256

ObserveRx(f) ==
    /\ rxQual' = IF IsGetIdReply(f) THEN rxQual \cup {ReplyAddress(f)} ELSE rxQual
    /\ lastQual' = IF IsGetIdReply(f) THEN ReplyAddress(f) ELSE lastQual
    /\ rxJunk' = (rxJunk \/ ~IsGetIdReply(f))

SessionAddress == IF tool = "id" THEN last_found_id ELSE current_id

-----------------------------------------------------------------------------
(* Pieces shared by the two main() functions *)

\* finally: if bus: bus.shutdown()
ShutdownBus ==
    /\ bus' = IF bus # "none" THEN "closed" ELSE bus
    /\ shutdowns' = IF bus # "none" THEN shutdowns + 1 ELSE shutdowns

\* leaving the try block of the command loop
LeaveLoop(kind) ==
    /\ pc' = "exited"
    /\ exitKind' = kind
    /\ ShutdownBus

\* the process dies outside any try block
Die(kind) ==
    /\ pc' = "exited"
    /\ exitKind' = kind
    /\ UNCHANGED <<bus, shutdowns>>

\* a call of scan_ids
CallScan(who) ==
    /\ pc' = "probe"
    /\ caller' = who
    /\ id_to_scan' = 0
    /\ elapsed' = 0
    /\ found_this_scan' = FALSE
    /\ preScanAddr' = SessionAddress
    /\ rxQual' = {}
    /\ lastQual' = -1
    /\ rxJunk' = FALSE
    /\ probeFailed' = FALSE

\* scan_ids has returned (or was never called): its locals are gone, and
\* the record of what it received is dropped with them
ForgetScan ==
    /\ caller' = ""
    /\ id_to_scan' = 0
    /\ elapsed' = 0
    /\ found_this_scan' = FALSE
    /\ preScanAddr' = NOT_FOUND
    /\ rxQual' = {}
    /\ lastQual' = -1
    /\ rxJunk' = FALSE
    /\ probeFailed' = FALSE

ScanAux == <<preScanAddr, rxQual, lastQual, rxJunk, probeFailed>>
ScanVars == <<found_this_scan, id_to_scan, elapsed, caller>>
Session == <<last_found_id, current_id, limit_spd>>
Handle == <<bus, shutdowns, exitKind>>
Line == <<cmd, out, sent, oks>>

-----------------------------------------------------------------------------
(* ID tool, scan_ids (src/main.py) *)

\* variant: the probe loop is left at the first failed send
C16_Mut_ProbeContinues(i, failed) == i < NUM_CANDIDATES /\ ~failed

\* for i in range(128): the loop goes on while i is below 128
Id_ProbeContinues(i, failed) == i < NUM_CANDIDATES

\* variant: the address found by an earlier scan is kept
C20_Mut_WindowReset(last) == last

\* last_found_id = 0xFF before the window
Id_WindowReset(last) == NOT_FOUND

\* while (time.monotonic() - t0) < total_wait_sec
Id_WindowOpen(t) == t * TickMs < ID_WAIT_MS

\* the chain of continue statements and the final if
Id_IsReply(rx_msg) ==
    /\ rx_msg.is_extended_id
    /\ rx_msg.dlc = 8
    /\ ExtMode(rx_msg.arbitration_id) = COMM_GET_ID
    /\ ExtId8(rx_msg.arbitration_id) = RESP_MARKER

\* variant: the first reply of the window is kept
C2_Mut_OnFrame(last, rx_msg) ==
    IF Id_IsReply(rx_msg) /\ last = NOT_FOUND
    THEN AndMask(ExtData16(rx_msg.arbitration_id), 255)
    ELSE last

\* last_found_id after one received frame
Id_OnFrame(last, rx_msg) ==
    IF Id_IsReply(rx_msg)
    THEN AndMask(ExtData16(rx_msg.arbitration_id), 255)
    ELSE last

\* if last_found_id == 0xFF: print("応答なし")
Id_ReportsNotFound(last) == last = NOT_FOUND

Id_ScanProbe ==
    /\ tool = "id" /\ pc = "probe"
    /\ Id_ProbeContinues(id_to_scan, probeFailed)
    /\ \E ok \in BOOLEAN :
         /\ sent' = Append(sent, GetIdFrame(id_to_scan))
         /\ probeFailed' = (probeFailed \/ ~ok)
    /\ id_to_scan' = id_to_scan + 1
    /\ ioAfterRelease' = IoFlag
    /\ UNCHANGED <<tool, codec, lastScanQual, pc, Handle, Session, found_this_scan, elapsed, caller,
                   cmd, out, oks, preScanAddr, rxQual, lastQual, rxJunk>>

Id_ScanBeginWindow ==
    /\ tool = "id" /\ pc = "probe"
    /\ ~Id_ProbeContinues(id_to_scan, probeFailed)
    /\ pc' = "window"
    /\ elapsed' = 0
    /\ last_found_id' = Id_WindowReset(last_found_id)
    /\ probeFailed' = FALSE
    /\ UNCHANGED <<tool, codec, lastScanQual, Handle, current_id, limit_spd, found_this_scan,
                   id_to_scan, caller, Line, preScanAddr, rxQual, lastQual,
                   rxJunk, ioAfterRelease>>

Id_ScanRecvTimeout ==
    /\ tool = "id" /\ pc = "window"
    /\ Id_WindowOpen(elapsed)
    /\ \E dt \in ClockSteps : elapsed' = elapsed + dt
    /\ ioAfterRelease' = IoFlag
    /\ UNCHANGED <<tool, codec, lastScanQual, pc, Handle, Session, found_this_scan, id_to_scan,
                   caller, Line, ScanAux>>

\* one iteration of the loop in which bus.recv returns rx_msg
Id_ScanRecv(rx_msg, dt) ==
    /\ tool = "id" /\ pc = "window"
    /\ Id_WindowOpen(elapsed)
    /\ elapsed' = elapsed + dt
    /\ last_found_id' = Id_OnFrame(last_found_id, rx_msg)
    /\ ObserveRx(rx_msg)
    /\ ioAfterRelease' = IoFlag
    /\ UNCHANGED <<tool, codec, lastScanQual, pc, Handle, current_id, limit_spd,
                   found_this_scan, id_to_scan, caller, Line, preScanAddr,
                   probeFailed>>

Id_ScanRecvFrame == \E rx_msg \in RxFrames, dt \in ClockSteps : Id_ScanRecv(rx_msg, dt)

Id_ScanEnd ==
    /\ tool = "id" /\ pc = "window"
    /\ ~Id_WindowOpen(elapsed)
    /\ out' = IF Id_ReportsNotFound(last_found_id) THEN "not_found" ELSE "scan_done"
    /\ pc' = "prompt"
    /\ lastScanQual' = lastQual
    /\ UNCHANGED <<tool, codec, Handle, Session, ScanVars, cmd, sent, oks, ScanAux,
                   ioAfterRelease>>

\* bus.recv raises can.CanError: nothing in scan_ids catches it.  The startup
\* scan runs before the try block of main, the others inside it.
Id_ScanRecvError ==
    /\ tool = "id" /\ pc = "window"
    /\ Id_WindowOpen(elapsed)
    /\ IF caller = "startup" THEN Die("recv_error") ELSE LeaveLoop("recv_error")
    /\ out' = "traceback"
    /\ ioAfterRelease' = IoFlag
    /\ ForgetScan
    /\ UNCHANGED <<tool, codec, lastScanQual, Session, cmd, sent, oks>>

-----------------------------------------------------------------------------
(* ID tool, main (src/main.py) *)

\* bus = can.Bus(...) succeeds; then the startup scan, before the try block
Id_BusOpen ==
    /\ tool = "id" /\ pc = "start"
    /\ bus' = "open"
    /\ CallScan("startup")
    /\ UNCHANGED <<tool, codec, lastScanQual, shutdowns, exitKind, Session, Line, ioAfterRelease>>

\* can.Bus(...) raises: sys.exit(1)
Id_BusFail ==
    /\ tool = "id" /\ pc = "start"
    /\ Die("initfail")
    /\ out' = "init_failed"
    /\ ForgetScan
    /\ UNCHANGED <<tool, codec, lastScanQual, Session, cmd, sent, oks, ioAfterRelease>>

\* if not cmd_line: continue
Id_CmdEmpty ==
    /\ tool = "id" /\ pc = "prompt"
    /\ cmd' = <<>> /\ out' = "" /\ sent' = <<>> /\ oks' = <<>>
    /\ ForgetScan
    /\ UNCHANGED <<tool, codec, lastScanQual, pc, Handle, Session, ioAfterRelease>>

Id_CmdScan ==
    /\ tool = "id" /\ pc = "prompt"
    /\ \E line \in IdLines :
         /\ line # <<>> /\ Upper(line[1]) = <<"G">>
         /\ cmd' = line
    /\ out' = "" /\ sent' = <<>> /\ oks' = <<>>
    /\ CallScan("G")
    /\ UNCHANGED <<tool, codec, lastScanQual, Handle, Session, ioAfterRelease>>

\* variant: the upper limit is one byte, not seven bits
C6_Mut_NewIdInRange(new_id) == 0 <= new_id /\ new_id <= 255

\* 0 <= new_id <= 0x7F
Id_NewIdInRange(new_id) == 0 <= new_id /\ new_id <= 127

\* variant: the sentinel check is missing
C5_Mut_NoCurrent(last) == FALSE

\* if last_found_id == 0xFF: nothing is visible, scan first
Id_NoCurrent(last) == last = NOT_FOUND

\* what the S command does with its argument, before any send
Id_SetIdVerdict(line, last) ==
    IF Len(line) < 2 THEN "usage"
    ELSE IF HexInvalid(line[2]) THEN "invalid"
    ELSE IF ~Id_NewIdInRange(HexInt(line[2])) THEN "range"
    ELSE IF Id_NoCurrent(last) THEN "scan_first"
    ELSE "send"

\* send_set_id succeeded: sleep, then scan_ids(bus)
Id_RescanAfterSetId(ok) == ok

Id_CmdSetId ==
    /\ tool = "id" /\ pc = "prompt"
    /\ \E line \in IdLines :
         /\ line # <<>> /\ Upper(line[1]) = <<"S">>
         /\ cmd' = line
         /\ IF Id_SetIdVerdict(line, last_found_id) # "send"
            THEN /\ out' = Id_SetIdVerdict(line, last_found_id)
                 /\ sent' = <<>> /\ oks' = <<>>
                 /\ ForgetScan
                 /\ UNCHANGED <<pc, ioAfterRelease>>
            ELSE \E ok \in BOOLEAN :
                 /\ sent' = <<SetIdFrame(last_found_id, HexInt(line[2]))>>
                 /\ oks' = <<ok>>
                 /\ ioAfterRelease' = IoFlag
                 /\ IF Id_RescanAfterSetId(ok)
                    THEN out' = "" /\ CallScan("S")
                    ELSE /\ out' = "send_failed"
                         /\ ForgetScan
                         /\ UNCHANGED pc
    /\ UNCHANGED <<tool, codec, lastScanQual, Handle, Session>>

\* elif cmd_char == 'Q': break, then the finally clause
Id_CmdQuit ==
    /\ tool = "id" /\ pc = "prompt"
    /\ \E line \in IdLines :
         /\ line # <<>> /\ Upper(line[1]) = <<"Q">>
         /\ cmd' = line
    /\ out' = "" /\ sent' = <<>> /\ oks' = <<>>
    /\ LeaveLoop("quit")
    /\ ForgetScan
    /\ UNCHANGED <<tool, codec, lastScanQual, Session, ioAfterRelease>>

Id_CmdUnknown ==
    /\ tool = "id" /\ pc = "prompt"
    /\ \E line \in IdLines :
         /\ line # <<>> /\ Upper(line[1]) \notin {<<"G">>, <<"S">>, <<"Q">>}
         /\ cmd' = line
    /\ out' = "help" /\ sent' = <<>> /\ oks' = <<>>
    /\ ForgetScan
    /\ UNCHANGED <<tool, codec, lastScanQual, pc, Handle, Session, ioAfterRelease>>

\* KeyboardInterrupt: caught around the command loop only; the startup scan
\* runs outside that try block
Id_Interrupt ==
    /\ tool = "id" /\ pc \in {"prompt", "probe", "window"}
    /\ IF pc # "prompt" /\ caller = "startup"
       THEN Die("interrupt") ELSE LeaveLoop("interrupt")
    /\ out' = "interrupted"
    /\ ForgetScan
    /\ UNCHANGED <<tool, codec, lastScanQual, Session, cmd, sent, oks, ioAfterRelease>>

-----------------------------------------------------------------------------
(* CSP tool, scan_ids (src/move.py) *)

\* for id_to_scan in range(128)
Csp_ProbeContinues(i, failed) == i < NUM_CANDIDATES

\* variant: the window start resets the address as the ID tool does
C1_Mut_WindowReset(cur) == NOT_FOUND

\* entering the window leaves current_id alone (only found_this_scan is reset)
Csp_WindowReset(cur) == cur

\* while (time.monotonic() - t0) < wait_sec
Csp_WindowOpen(t) == t * TickMs < CSP_WAIT_MS

\* variant: the length of the frame is not looked at
C14_Mut_IsReply(rx_msg) ==
    /\ rx_msg.is_extended_id
    /\ ExtMode(rx_msg.arbitration_id) = COMM_GET_ID
    /\ ExtId8(rx_msg.arbitration_id) = RESP_MARKER

\* the continue statements and the final if
Csp_IsReply(rx_msg) ==
    /\ ~(~rx_msg.is_extended_id \/ rx_msg.dlc # 8)
    /\ ExtMode(rx_msg.arbitration_id) = COMM_GET_ID
    /\ ExtId8(rx_msg.arbitration_id) = RESP_MARKER

\* current_id after one received frame
Csp_OnFrame(cur, rx_msg) ==
    IF Csp_IsReply(rx_msg)
    THEN AndMask(ExtData16(rx_msg.arbitration_id), 255)
    ELSE cur

\* found_this_scan after one received frame
Csp_FoundAfter(found, rx_msg) == found \/ Csp_IsReply(rx_msg)

\* if not found_this_scan: print("応答なし")
Csp_ReportsNotFound(found) == ~found

Csp_ScanProbe ==
    /\ tool = "csp" /\ pc = "probe"
    /\ Csp_ProbeContinues(id_to_scan, probeFailed)
    /\ \E ok \in BOOLEAN :
         /\ sent' = Append(sent, GetIdFrame(id_to_scan))
         /\ probeFailed' = (probeFailed \/ ~ok)
    /\ id_to_scan' = id_to_scan + 1
    /\ ioAfterRelease' = IoFlag
    /\ UNCHANGED <<tool, codec, lastScanQual, pc, Handle, Session, found_this_scan, elapsed, caller,
                   cmd, out, oks, preScanAddr, rxQual, lastQual, rxJunk>>

Csp_ScanBeginWindow ==
    /\ tool = "csp" /\ pc = "probe"
    /\ ~Csp_ProbeContinues(id_to_scan, probeFailed)
    /\ pc' = "window"
    /\ elapsed' = 0
    /\ found_this_scan' = FALSE
    /\ current_id' = Csp_WindowReset(current_id)
    /\ probeFailed' = FALSE
    /\ UNCHANGED <<tool, codec, lastScanQual, Handle, last_found_id, limit_spd, id_to_scan, caller,
                   Line, preScanAddr, rxQual, lastQual, rxJunk, ioAfterRelease>>

Csp_ScanRecvTimeout ==
    /\ tool = "csp" /\ pc = "window"
    /\ Csp_WindowOpen(elapsed)
    /\ \E dt \in ClockSteps : elapsed' = elapsed + dt
    /\ ioAfterRelease' = IoFlag
    /\ UNCHANGED <<tool, codec, lastScanQual, pc, Handle, Session, found_this_scan, id_to_scan,
                   caller, Line, ScanAux>>

\* one iteration of the loop in which bus.recv returns rx_msg
Csp_ScanRecv(rx_msg, dt) ==
    /\ tool = "csp" /\ pc = "window"
    /\ Csp_WindowOpen(elapsed)
    /\ elapsed' = elapsed + dt
    /\ current_id' = Csp_OnFrame(current_id, rx_msg)
    /\ found_this_scan' = Csp_FoundAfter(found_this_scan, rx_msg)
    /\ ObserveRx(rx_msg)
    /\ ioAfterRelease' = IoFlag
    /\ UNCHANGED <<tool, codec, lastScanQual, pc, Handle, last_found_id, limit_spd,
                   id_to_scan, caller, Line, preScanAddr, probeFailed>>

Csp_ScanRecvFrame == \E rx_msg \in RxFrames, dt \in ClockSteps : Csp_ScanRecv(rx_msg, dt)

Csp_ScanEnd ==
    /\ tool = "csp" /\ pc = "window"
    /\ ~Csp_WindowOpen(elapsed)
    /\ out' = IF Csp_ReportsNotFound(found_this_scan) THEN "not_found" ELSE "scan_done"
    /\ pc' = "prompt"
    /\ lastScanQual' = lastQual
    /\ UNCHANGED <<tool, codec, Handle, Session, ScanVars, cmd, sent, oks, ScanAux,
                   ioAfterRelease>>

\* bus.recv raises can.CanError inside the try block of main
Csp_ScanRecvError ==
    /\ tool = "csp" /\ pc = "window"
    /\ Csp_WindowOpen(elapsed)
    /\ LeaveLoop("recv_error")
    /\ out' = "traceback"
    /\ ioAfterRelease' = IoFlag
    /\ ForgetScan
    /\ UNCHANGED <<tool, codec, lastScanQual, Session, cmd, sent, oks>>

-----------------------------------------------------------------------------
(* CSP tool, csp_move_deg and the L command (src/move.py) *)

\* the four frames csp_move_deg builds, in order
csp_move_frames(deg, id, lim) ==
    << WriteU8Frame(IDX_runmode, CSP_RUNMODE, id),
       WriteFFrame(IDX_limit_spd, lim, id),
       EnableFrame(id),
       WriteFFrame(IDX_loc_ref, DegToRad(deg), id) >>

\* how many of them reach bus.send: write_param_f raises OverflowError in
\* float_to_le_bytes before it sends
csp_move_reached(deg, lim) ==
    IF PackOverflows(lim) THEN 1
    ELSE IF PackOverflows(DegToRad(deg)) THEN 3
    ELSE 4

\* variant: the sequence stops after the first failed send
C4_Mut_move_attempts(n, o) ==
    IF \E j \in 1..n : ~o[j]
    THEN CHOOSE j \in 1..n : ~o[j] /\ \A i \in 1..(j - 1) : o[i]
    ELSE n

\* the sends attempted given the outcomes o of the sends: ok &= ... never
\* returns early
csp_move_attempts(n, o) == n

\* ok = True; ok &= ... four times
csp_move_ok(o) == o[1] /\ o[2] /\ o[3] /\ o[4]

\* if v < 0: v = 0.0
ClampLimit(v) == IF FloatNeg(v) THEN Fin(0) ELSE v

\* variant: the value is stored whether or not the send succeeded
C18_Mut_LimitAfter(old, v, ok) == v

\* if ok: limit_spd = v
LimitAfter(old, v, ok) == IF ok THEN v ELSE old

\* sends the L command makes for one value (no retry)
LimitSends(v, id) == <<WriteFFrame(IDX_limit_spd, v, id)>>

-----------------------------------------------------------------------------
(* CSP tool, main (src/move.py) *)

\* bus = can.Bus(...) succeeds; the command loop follows at once
Csp_BusOpen ==
    /\ tool = "csp" /\ pc = "start"
    /\ bus' = "open"
    /\ pc' = "prompt"
    /\ UNCHANGED <<tool, codec, lastScanQual, shutdowns, exitKind, Session, ScanVars, Line, ScanAux,
                   ioAfterRelease>>

\* can.Bus(...) raises: sys.exit(1)
Csp_BusFail ==
    /\ tool = "csp" /\ pc = "start"
    /\ Die("initfail")
    /\ out' = "init_failed"
    /\ ForgetScan
    /\ UNCHANGED <<tool, codec, lastScanQual, Session, cmd, sent, oks, ioAfterRelease>>

Csp_CmdEmpty ==
    /\ tool = "csp" /\ pc = "prompt"
    /\ cmd' = <<>> /\ out' = "" /\ sent' = <<>> /\ oks' = <<>>
    /\ ForgetScan
    /\ UNCHANGED <<tool, codec, lastScanQual, pc, Handle, Session, ioAfterRelease>>

Csp_CmdScan ==
    /\ tool = "csp" /\ pc = "prompt"
    /\ \E line \in CspLines :
         /\ line # <<>> /\ Upper(line[1]) = <<"G">>
         /\ cmd' = line
    /\ out' = "" /\ sent' = <<>> /\ oks' = <<>>
    /\ CallScan("G")
    /\ UNCHANGED <<tool, codec, lastScanQual, Handle, Session, ioAfterRelease>>

\* elif cmd_char == 'L'
Csp_CmdLimit ==
    /\ tool = "csp" /\ pc = "prompt"
    /\ \E line \in CspLines :
         /\ line # <<>> /\ Upper(line[1]) = <<"L">>
         /\ cmd' = line
         /\ IF Len(line) < 2
            THEN /\ out' = "usage" /\ sent' = <<>> /\ oks' = <<>>
                 /\ UNCHANGED <<pc, Handle, limit_spd, ioAfterRelease>>
            ELSE IF ParseFloat(line[2]) = NoFloat
            THEN /\ out' = "invalid" /\ sent' = <<>> /\ oks' = <<>>
                 /\ UNCHANGED <<pc, Handle, limit_spd, ioAfterRelease>>
            ELSE LET v == ClampLimit(ParseFloat(line[2]))
                 IN  IF PackOverflows(v)
                     THEN /\ out' = "traceback" /\ sent' = <<>> /\ oks' = <<>>
                          /\ LeaveLoop("overflow")
                          /\ UNCHANGED <<limit_spd, ioAfterRelease>>
                     ELSE \E ok \in BOOLEAN :
                          /\ sent' = LimitSends(v, current_id)
                          /\ oks' = [j \in 1..Len(LimitSends(v, current_id)) |-> ok]
                          /\ limit_spd' = LimitAfter(limit_spd, v, ok)
                          /\ out' = IF ok THEN "OK" ELSE "NG"
                          /\ ioAfterRelease' = IoFlag
                          /\ UNCHANGED <<pc, Handle>>
    /\ ForgetScan
    /\ UNCHANGED <<tool, codec, lastScanQual, last_found_id, current_id>>

\* elif cmd_char == 'A'
Csp_CmdAngle ==
    /\ tool = "csp" /\ pc = "prompt"
    /\ \E line \in CspLines :
         /\ line # <<>> /\ Upper(line[1]) = <<"A">>
         /\ cmd' = line
         /\ IF Len(line) < 2
            THEN /\ out' = "usage" /\ sent' = <<>> /\ oks' = <<>>
                 /\ UNCHANGED <<pc, Handle, ioAfterRelease>>
            ELSE IF ParseFloat(line[2]) = NoFloat
            THEN /\ out' = "invalid" /\ sent' = <<>> /\ oks' = <<>>
                 /\ UNCHANGED <<pc, Handle, ioAfterRelease>>
            ELSE \E o \in [1..4 -> BOOLEAN] :
                 LET deg == ParseFloat(line[2])
                     reached == csp_move_reached(deg, limit_spd)
                     n == csp_move_attempts(reached, o)
                 IN  /\ sent' = SubSeq(csp_move_frames(deg, current_id, limit_spd), 1, n)
                     /\ oks' = [j \in 1..n |-> o[j]]
                     /\ ioAfterRelease' = IoFlag
                     /\ IF reached < 4
                        THEN out' = "traceback" /\ LeaveLoop("overflow")
                        ELSE /\ out' = IF csp_move_ok(o) THEN "OK" ELSE "NG"
                             /\ UNCHANGED <<pc, Handle>>
    /\ ForgetScan
    /\ UNCHANGED <<tool, codec, lastScanQual, Session>>

Csp_CmdQuit ==
    /\ tool = "csp" /\ pc = "prompt"
    /\ \E line \in CspLines :
         /\ line # <<>> /\ Upper(line[1]) = <<"Q">>
         /\ cmd' = line
    /\ out' = "" /\ sent' = <<>> /\ oks' = <<>>
    /\ LeaveLoop("quit")
    /\ ForgetScan
    /\ UNCHANGED <<tool, codec, lastScanQual, Session, ioAfterRelease>>

Csp_CmdUnknown ==
    /\ tool = "csp" /\ pc = "prompt"
    /\ \E line \in CspLines :
         /\ line # <<>>
         /\ Upper(line[1]) \notin {<<"G">>, <<"L">>, <<"A">>, <<"Q">>}
         /\ cmd' = line
    /\ out' = "help" /\ sent' = <<>> /\ oks' = <<>>
    /\ ForgetScan
    /\ UNCHANGED <<tool, codec, lastScanQual, pc, Handle, Session, ioAfterRelease>>

\* KeyboardInterrupt: the whole command loop is inside the try block
Csp_Interrupt ==
    /\ tool = "csp" /\ pc \in {"prompt", "probe", "window"}
    /\ LeaveLoop("interrupt")
    /\ out' = "interrupted"
    /\ ForgetScan
    /\ UNCHANGED <<tool, codec, lastScanQual, Session, cmd, sent, oks, ioAfterRelease>>

-----------------------------------------------------------------------------
(* The process *)

DEFAULT_LIMIT_SPD == 10000000

\* the codec is not exercised on its own while a tool runs
CodecIdle ==
    [phase |-> "idle", mode |-> 0, data16 |-> 0, id8 |-> 0, extid |-> 0,
     dmode |-> 0, ddata16 |-> 0, did8 |-> 0]

\* the state of the process before main runs, whichever tool it is
Globals ==
    /\ pc = "start"
    /\ bus = "none"
    /\ shutdowns = 0
    /\ exitKind = ""
    /\ last_found_id = NOT_FOUND
    /\ current_id = CSP_INITIAL_ID
    /\ limit_spd = Fin(DEFAULT_LIMIT_SPD)
    /\ found_this_scan = FALSE
    /\ id_to_scan = 0
    /\ elapsed = 0
    /\ caller = ""
    /\ cmd = <<>>
    /\ out = ""
    /\ sent = <<>>
    /\ oks = <<>>
    /\ probeFailed = FALSE
    /\ preScanAddr = NOT_FOUND
    /\ rxQual = {}
    /\ lastQual = -1
    /\ rxJunk = FALSE
    /\ ioAfterRelease = FALSE
    /\ lastScanQual = -1

Init ==
    /\ tool \in {"id", "csp"}
    /\ codec = CodecIdle
    /\ Globals

Next ==
    \/ Id_BusOpen \/ Id_BusFail
    \/ Id_ScanProbe \/ Id_ScanBeginWindow \/ Id_ScanRecvTimeout
    \/ Id_ScanRecvFrame \/ Id_ScanEnd \/ Id_ScanRecvError
    \/ Id_CmdEmpty \/ Id_CmdScan \/ Id_CmdSetId \/ Id_CmdQuit \/ Id_CmdUnknown
    \/ Id_Interrupt
    \/ Csp_BusOpen \/ Csp_BusFail
    \/ Csp_ScanProbe \/ Csp_ScanBeginWindow \/ Csp_ScanRecvTimeout
    \/ Csp_ScanRecvFrame \/ Csp_ScanEnd \/ Csp_ScanRecvError
    \/ Csp_CmdEmpty \/ Csp_CmdScan \/ Csp_CmdLimit \/ Csp_CmdAngle
    \/ Csp_CmdQuit \/ Csp_CmdUnknown
    \/ Csp_Interrupt

Spec == Init /\ [][Next]_vars

-----------------------------------------------------------------------------
(* The frame codec on its own: build_ext_id applied to fields drawn from    *)
(* their ranges, then the field extraction of scan_ids applied to the       *)
(* result                                                                   *)

ModeRange == 0..31
Data16Samples == {0, 1, 253, 255, 256, 4660, 32765, 64768, 65534, 65535}
Id8Samples == {0, 1, 16, 127, 128, 253, 254, 255}

ProgVars == <<pc, bus, shutdowns, exitKind, last_found_id, current_id,
              limit_spd, found_this_scan, id_to_scan, elapsed, caller, cmd,
              out, sent, oks, probeFailed, preScanAddr, rxQual, lastQual,
              rxJunk, ioAfterRelease, lastScanQual>>

CodecInit ==
    /\ tool = "codec"
    /\ Globals
    /\ codec \in { [CodecIdle EXCEPT !.phase = "fields", !.mode = m,
                                     !.data16 = d, !.id8 = i] :
                     m \in ModeRange, d \in Data16Samples, i \in Id8Samples }

Codec_Encode ==
    /\ tool = "codec" /\ codec.phase = "fields"
    /\ codec' = [codec EXCEPT !.phase = "built",
                              !.extid = build_ext_id(codec.mode, codec.data16, codec.id8)]
    /\ UNCHANGED <<tool, ProgVars>>

Codec_Decode ==
    /\ tool = "codec" /\ codec.phase = "built"
    /\ codec' = [codec EXCEPT !.phase = "decoded",
                              !.dmode = ExtMode(codec.extid),
                              !.ddata16 = ExtData16(codec.extid),
                              !.did8 = ExtId8(codec.extid)]
    /\ UNCHANGED <<tool, ProgVars>>

CodecNext == Codec_Encode \/ Codec_Decode

CodecSpec == CodecInit /\ [][CodecNext]_vars

-----------------------------------------------------------------------------
(* The tools under a clock that advances and a scheduler that runs the      *)
(* scan's own statements                                                    *)

\* an iteration of a receive loop across which time.monotonic() has advanced
TimeAdvances ==
    /\ Id_ScanRecvTimeout \/ Id_ScanRecvFrame \/ Csp_ScanRecvTimeout \/ Csp_ScanRecvFrame
    /\ elapsed' > elapsed

\* the statements of scan_ids that wait for nothing: a probe, the start of
\* the window, the return
ScanRuns ==
    \/ Id_ScanProbe \/ Id_ScanBeginWindow \/ Id_ScanEnd
    \/ Csp_ScanProbe \/ Csp_ScanBeginWindow \/ Csp_ScanEnd

LiveSpec == Spec /\ WF_vars(TimeAdvances) /\ WF_vars(ScanRuns)

-----------------------------------------------------------------------------
(* Vocabulary of the properties below *)

\* scan_ids has just returned to the command loop
ScanJustEnded == pc = "prompt" /\ caller # ""

\* new-address arguments of the S command, by what they denote
InRangeTokens == { <<"1", "0">>, <<"2", "2">>, <<"7", "f">> }
OutOfRangeTokens == { <<"8", "0">>, <<"C", "8">>, <<"-", "5">> }

NewAddrOf(tok) ==
    CASE tok = <<"1", "0">> -> 16
      [] tok = <<"2", "2">> -> 34
      [] tok = <<"7", "f">> -> 127

IsVerb(line, upper, lower) == line # <<>> /\ line[1] \in {<<upper>>, <<lower>>}

\* the fields of an identifier
ModeOf(f) == (f.arbitration_id \div 16777216) % 32
Data16Of(f) == (f.arbitration_id \div 256) % 65536
Id8Of(f) == f.arbitration_id % 256

ZeroPayload(f) == f.head = <<0, 0, 0, 0>> /\ f.tail = [k |-> "u8", v |-> Fin(0)]

\* a GET_ID probe for candidate a
IsProbe(f, a) ==
    ModeOf(f) = 0 /\ Data16Of(f) = 64768 /\ Id8Of(f) = a /\ ZeroPayload(f)

\* a WRITE_ONE frame to parameter index (lo, hi) addressed to id
IsWriteOne(f, lo, hi, id) ==
    /\ ModeOf(f) = 18 /\ Data16Of(f) = 64768 /\ Id8Of(f) = id
    /\ f.is_extended_id /\ f.dlc = 8
    /\ f.head = <<lo, hi, 0, 0>>

\* the line just processed called csp_move_deg / reached the limit write
MoveCalled ==
    tool = "csp" /\ IsVerb(cmd, "A", "a") /\ Len(cmd) >= 2
    /\ cmd[2] \in { <<"9", "0">>, <<"-", "4", "5", ".", "5">>,
                    <<"1", "e", "3", "9">>, <<"1", "e", "4", "1">> }
    /\ out # "interrupted"

-----------------------------------------------------------------------------
(* C1 *)

-----------------------------------------------------------------------------
(* C2 *)

\* C2: during and after a scan that has received one or more qualifying
\* GET_ID replies, the session address is the address of the last qualifying
\* reply received, whatever came before it and whatever other frames were
\* interleaved.
C2_LastReplyWins ==
    ((pc = "window" \/ ScanJustEnded) /\ lastQual # -1)
        => SessionAddress = lastQual

C2_Witness ==
    /\ ScanJustEnded /\ rxQual = {16, 254} /\ lastQual = 16 /\ rxJunk
    /\ SessionAddress = 16

-----------------------------------------------------------------------------
(* C3 *)

\* C3: every call of csp_move_deg hands exactly four frames to the
\* transport: byte write RUNMODE = 5, float write LIMIT_SPD, RUN_ENABLE,
\* float write LOC_REF, all with id8 = current address, for every angle
\* argument and every combination of send outcomes.
C3_FourFrames ==
    MoveCalled
        => /\ Len(sent) = 4
           /\ IsWriteOne(sent[1], 5, 112, current_id)
           /\ sent[1].tail = [k |-> "u8", v |-> Fin(5)]
           /\ IsWriteOne(sent[2], 23, 112, current_id)
           /\ sent[2].tail.k = "f32"
           /\ ModeOf(sent[3]) = 3 /\ Id8Of(sent[3]) = current_id
           /\ IsWriteOne(sent[4], 22, 112, current_id)
           /\ sent[4].tail.k = "f32"

-----------------------------------------------------------------------------
(* C4 *)

\* C4: csp_move_deg reports success exactly when four sends were made and
\* all four succeeded; the number of sends attempted does not depend on the
\* outcome of any send (it is four, or three when the radian value cannot
\* be packed), so a failed send never stops the later ones.
C4_AndOfOutcomes ==
    MoveCalled
        => /\ (out = "OK") <=> (Len(oks) = 4 /\ \A j \in 1..4 : oks[j])
           /\ Len(sent) = Len(oks)
           /\ Len(sent) = IF cmd[2] = <<"1", "e", "4", "1">> THEN 3 ELSE 4

C4_Witness ==
    /\ MoveCalled /\ Len(sent) = 4 /\ out = "NG"
    /\ oks = <<FALSE, TRUE, TRUE, TRUE>>

-----------------------------------------------------------------------------
(* C5 *)

\* the step processes an S line whose argument is tok
SetIdStep(tok) == Id_CmdSetId /\ Len(cmd') >= 2 /\ cmd'[2] = tok

\* C5: an S command with an in-range new address, issued while
\* last_found_id is the 0xFF sentinel, reports the scan-first error, sends
\* no frame, starts no scan and leaves the session state unchanged.
C5_ScanFirst ==
    [][\A tok \in InRangeTokens :
         (SetIdStep(tok) /\ last_found_id = 255)
             => /\ out' = "scan_first"
                /\ sent' = <<>>
                /\ pc' = "prompt"
                /\ UNCHANGED <<last_found_id, current_id, limit_spd, bus>>]_vars

C5_Witness ==
    /\ tool = "id" /\ pc = "prompt" /\ out = "scan_first"
    /\ Len(cmd) >= 2 /\ cmd[2] = <<"7", "f">>
    /\ last_found_id = 255 /\ sent = <<>>

-----------------------------------------------------------------------------
(* C6 *)

\* C6: an S command whose new address is negative or above 0x7F fails
\* validation, sends no frame, starts no scan and leaves last_found_id
\* unchanged, whether or not a current address is known.
C6_RangeCheck ==
    [][\A tok \in OutOfRangeTokens :
         SetIdStep(tok)
             => /\ out' = "range"
                /\ sent' = <<>>
                /\ pc' = "prompt"
                /\ UNCHANGED <<last_found_id, current_id, limit_spd, bus>>]_vars

C6_Witness ==
    /\ tool = "id" /\ pc = "prompt" /\ out = "range"
    /\ Len(cmd) >= 2 /\ cmd[2] = <<"8", "0">>
    /\ last_found_id = 16 /\ sent = <<>>

-----------------------------------------------------------------------------
(* C7 *)

\* the S step with a valid new address and a known current address
C7_Step ==
    \A tok \in InRangeTokens :
        (SetIdStep(tok) /\ last_found_id # 255)
            => /\ Len(sent') = 1 /\ Len(oks') = 1
               /\ ModeOf(sent'[1]) = 7
               /\ Data16Of(sent'[1]) = NewAddrOf(tok) * 256 + 253
               /\ Id8Of(sent'[1]) = last_found_id
               /\ ZeroPayload(sent'[1])
               /\ oks'[1] => (pc' = "probe" /\ id_to_scan' = 0 /\ caller' = "S")
               /\ ~oks'[1] => /\ pc' = "prompt" /\ caller' = ""
                              /\ out' = "send_failed"
                              /\ last_found_id' = last_found_id

\* the rescan an S command started has returned
C7_Rescanned ==
    (tool = "id" /\ ScanJustEnded /\ caller = "S")
        => /\ Len(sent) = 129
           /\ ModeOf(sent[1]) = 7
           /\ \A j \in 2..129 : IsProbe(sent[j], j - 2)
           /\ rxQual = {NewAddrOf(cmd[2])} => last_found_id = NewAddrOf(cmd[2])

\* C7: an S command with a valid new address and a known current address
\* sends exactly one SET_ID frame (mode 7, data16 = (new << 8) | 0xFD, id8 =
\* current address); when the send succeeds a scan of 128 probes and a
\* receive window follows and, if every reply of that window carries the new
\* address, last_found_id is the new address afterwards; when the send fails
\* no scan starts and last_found_id is unchanged.
C7_SetIdThenRescan == [][C7_Step /\ C7_Rescanned']_vars

C7_Witness ==
    /\ tool = "id" /\ ScanJustEnded /\ caller = "S"
    /\ cmd[2] = <<"1", "0">> /\ preScanAddr = 254
    /\ rxQual = {16} /\ last_found_id = 16

-----------------------------------------------------------------------------
(* C8 *)

NumericLimitTokens ==
    { <<"2", ".", "5">>, <<"-", "1", ".", "5">>, <<"3", "e", "3", "8">>,
      <<"1", "e", "3", "9">>, <<"n", "a", "n">> }

\* the value an L argument denotes, after the clamp of negative values
LimitTokenValue(tok) ==
    CASE tok = <<"2", ".", "5">> -> Fin(2500000)
      [] tok = <<"-", "1", ".", "5">> -> Fin(0)
      [] tok = <<"3", "e", "3", "8">> -> Sci(3000, 38)
      [] tok = <<"1", "e", "3", "9">> -> Sci(1000, 39)
      [] tok = <<"n", "a", "n">> -> NaN

\* C8: an L command with a numeric argument sends exactly one WRITE_ONE
\* float frame to LIMIT_SPD addressed to current_id; limit_spd becomes the
\* clamped value when that send succeeded and is unchanged when it failed.
C8_LimitWrite ==
    [][\A tok \in NumericLimitTokens :
         (Csp_CmdLimit /\ Len(cmd') >= 2 /\ cmd'[2] = tok)
             => /\ Len(sent') = 1 /\ Len(oks') = 1
                /\ IsWriteOne(sent'[1], 23, 112, current_id)
                /\ sent'[1].tail = [k |-> "f32", v |-> LimitTokenValue(tok)]
                /\ oks'[1] => limit_spd' = LimitTokenValue(tok)
                /\ ~oks'[1] => limit_spd' = limit_spd]_vars

-----------------------------------------------------------------------------
(* C9 *)

\* C9: whatever line is read, the command loop goes on; the process ends
\* only through the quit command or an interruption by the operator (or,
\* outside the loop's commands, a failed acquisition or a failing receive).
C9_LoopGoesOn ==
    pc = "exited" => exitKind \in {"quit", "interrupt", "initfail", "recv_error"}

-----------------------------------------------------------------------------
(* C10 *)

\* C10: once acquired, the handle is released exactly once on every way the
\* process ends, nothing is sent or received on a released handle, and a
\* failed acquisition processes no command and sends no frame.
C10_ReleasedOnce ==
    /\ shutdowns <= 1
    /\ ~ioAfterRelease
    /\ (pc = "exited" /\ exitKind # "initfail") => (shutdowns = 1 /\ bus = "closed")
    /\ exitKind = "initfail" => (bus = "none" /\ sent = <<>> /\ cmd = <<>>)

-----------------------------------------------------------------------------
(* C11 *)

\* C11: for every mode in 0..31, data16 in 0..65535 and id8 in 0..255 the
\* fields extracted from build_ext_id(mode, data16, id8) as the scan loop
\* extracts them are (mode, data16, id8) again, and the identifier is below
\* 2^29.
C11_RoundTrip ==
    /\ codec.phase \in {"built", "decoded"} =>
           /\ codec.extid = build_ext_id(codec.mode, codec.data16, codec.id8)
           /\ codec.extid < 536870912
    /\ codec.phase = "decoded" =>
           /\ codec.dmode = codec.mode
           /\ codec.ddata16 = codec.data16
           /\ codec.did8 = codec.id8

C11_Witness ==
    /\ codec.phase = "decoded"
    /\ codec.mode = 31 /\ codec.data16 = 65535 /\ codec.id8 = 255
    /\ codec.extid = 536870911

-----------------------------------------------------------------------------
(* C12 *)

\* C12: in every reachable state of either tool the session's current
\* address is a device address in 0..127 or the 0xFF not-found sentinel.
C12_AddressInRange == SessionAddress \in (0..127) \cup {NOT_FOUND}

-----------------------------------------------------------------------------
(* C13 *)

\* v >= 0 as Python evaluates it (false for NaN)
FloatNonNeg(v) == v.k \in {"fin", "sci"} /\ v.n >= 0

\* C13: in every reachable state limit_spd >= 0; it starts at 10.0 and an
\* L command with a negative argument sends and stores 0.
C13_LimitNonNegative ==
    /\ tool = "csp" => FloatNonNeg(limit_spd)
    /\ (tool = "csp" /\ pc = "start") => limit_spd = Fin(DEFAULT_LIMIT_SPD)
    /\ (tool = "csp" /\ Len(cmd) >= 2 /\ Upper(cmd[1]) = <<"L">>
          /\ FloatNeg(ParseFloat(cmd[2])) /\ sent # <<>>) =>
           /\ sent[1].tail = float_to_le_bytes(Fin(0))
           /\ oks[1] => limit_spd = Fin(0)

-----------------------------------------------------------------------------
(* C14 *)

\* C14: during a scan, a received frame that fails one of the four
\* conditions (extended identifier, length 8, mode 0x00, id8 0xFE) changes
\* neither the session's current address nor the found / not-found outcome
\* of the scan.
C14_JunkIgnored ==
    [][\A f \in RxFrames, dt \in ClockSteps :
         ((Id_ScanRecv(f, dt) \/ Csp_ScanRecv(f, dt)) /\ ~IsGetIdReply(f))
             => /\ SessionAddress' = SessionAddress
                /\ found_this_scan' = found_this_scan
                /\ Id_ReportsNotFound(last_found_id') = Id_ReportsNotFound(last_found_id)
                /\ Csp_ReportsNotFound(found_this_scan') = Csp_ReportsNotFound(found_this_scan)]_vars

C14_Witness ==
    /\ tool = "csp" /\ pc = "window"
    /\ rxJunk /\ rxQual = {16}
    /\ current_id = 16 /\ found_this_scan

-----------------------------------------------------------------------------
(* C15 *)

\* C15: in both tools a scan during whose window at least one qualifying
\* GET_ID reply was received does not report not-found, whatever address
\* in 0..255 the reply carried.
C15_ReplyMeansFound ==
    (ScanJustEnded /\ rxQual # {}) =>
        /\ out # "not_found"
        /\ tool = "id" => ~Id_ReportsNotFound(last_found_id)
        /\ tool = "csp" => ~Csp_ReportsNotFound(found_this_scan)

-----------------------------------------------------------------------------
(* C16 *)

\* frames the command sent before it called scan_ids
SentBeforeScan == IF caller = "S" THEN 1 ELSE 0

\* probes attempted so far by the scan in progress or just ended
ProbesAttempted == IF pc = "probe" THEN id_to_scan ELSE NUM_CANDIDATES

\* C16: a scan attempts exactly one GET_ID probe (mode 0x00, data16 0xFD00,
\* id8 = candidate, zero payload) per candidate 0..127 in ascending order,
\* all 128 of them before the receive window begins, and a failed send stops
\* neither the remaining probes nor the window.
C16_ProbesInOrder ==
    (pc \in {"probe", "window"} \/ ScanJustEnded) =>
        /\ ProbesAttempted \in 0..NUM_CANDIDATES
        /\ Len(sent) = SentBeforeScan + ProbesAttempted
        /\ \A j \in 1..ProbesAttempted :
             /\ IsProbe(sent[SentBeforeScan + j], j - 1)
             /\ sent[SentBeforeScan + j].is_extended_id
             /\ sent[SentBeforeScan + j].dlc = 8
        /\ \A j \in 1..SentBeforeScan : ModeOf(sent[j]) # 0

C16_Witness ==
    /\ pc = "probe" /\ id_to_scan = NUM_CANDIDATES /\ probeFailed
    /\ Len(sent) = NUM_CANDIDATES
    /\ IsProbe(sent[1], 0) /\ IsProbe(sent[NUM_CANDIDATES], 127)

-----------------------------------------------------------------------------
(* C17 *)

\* C17: when time advances, every scan ends once its window has elapsed,
\* whatever the bus delivers (a frame on every receive call included), and
\* control returns to the command loop (or the process has ended through an
\* interruption or a failing receive).
C17_ScanTerminates ==
    (pc \in {"probe", "window"}) ~> (pc \in {"prompt", "exited"})

C17_Witness ==
    /\ tool = "id" /\ ScanJustEnded /\ caller = "G"
    /\ elapsed * TickMs >= ID_WAIT_MS
    /\ rxJunk /\ rxQual = {16, 254, 255}

-----------------------------------------------------------------------------
(* C18 *)

\* the step handles a line whose verb is u (or its lower case l)
CommandStep(u, l) == pc = "prompt" /\ IsVerb(cmd', u, l) /\ out' # "interrupted"

\* a step of a scan: the call from the G command or a statement of scan_ids
ScanStep == CommandStep("G", "g") \/ pc \in {"probe", "window"}

\* C18: in the CSP tool limit_spd changes only in an L command whose send
\* succeeded (to the value sent) and current_id only when a scan receives a
\* qualifying reply (to the address it carries); the A command changes
\* neither, a scan does not change limit_spd, the L command does not change
\* current_id; so the LIMIT_SPD frame of a move carries limit_spd, the value
\* of the latest successful L command, or 10.0 when there was none.
C18_FrameConditions ==
    [][tool = "csp" =>
         /\ limit_spd' # limit_spd =>
               /\ Csp_CmdLimit
               /\ oks' = <<TRUE>>
               /\ sent'[1].tail = float_to_le_bytes(limit_spd')
         /\ current_id' # current_id =>
               \E f \in RxFrames, dt \in ClockSteps :
                   Csp_ScanRecv(f, dt) /\ IsGetIdReply(f) /\ current_id' = ReplyAddress(f)
         /\ CommandStep("A", "a") => (limit_spd' = limit_spd /\ current_id' = current_id)
         /\ ScanStep => limit_spd' = limit_spd
         /\ CommandStep("L", "l") => current_id' = current_id
         /\ (CommandStep("A", "a") /\ Len(sent') >= 2) =>
               /\ IsWriteOne(sent'[2], 23, 112, current_id)
               /\ sent'[2].tail = float_to_le_bytes(limit_spd)]_vars

C18_Witness ==
    /\ MoveCalled /\ Len(sent) = 4
    /\ limit_spd = Fin(2500000) /\ current_id = 16
    /\ sent[2].tail = float_to_le_bytes(Fin(2500000))
    /\ Id8Of(sent[2]) = 16

-----------------------------------------------------------------------------
(* C19 *)

\* C19: no frame either tool sends (GET_ID probe, SET_ID, RUN_ENABLE,
\* WRITE_ONE) has mode 0x00 together with id8 0xFE, so none is classified
\* as a GET_ID reply by either receive loop when echoed back.
C19_NoSelfReply ==
    \A j \in 1..Len(sent) :
        /\ ~(ModeOf(sent[j]) = 0 /\ Id8Of(sent[j]) = 254)
        /\ ~IsGetIdReply(sent[j])
        /\ ~Id_IsReply(sent[j]) /\ ~Csp_IsReply(sent[j])

C19_Witness ==
    /\ tool = "id" /\ pc = "window" /\ caller = "S"
    /\ Len(sent) = 1 + NUM_CANDIDATES
    /\ ModeOf(sent[1]) = 7 /\ Id8Of(sent[1]) = 254
    /\ sent[1].is_extended_id /\ sent[1].dlc = 8

-----------------------------------------------------------------------------
(* C20 *)

\* C20: in the ID tool every SET_ID frame sent has id8 equal to the address
\* of the last qualifying reply of the scan that completed most recently
\* (startup scan and rescan after a SET_ID included), and no SET_ID frame is
\* sent when that scan received no qualifying reply.
C20_SetIdTarget ==
    [][tool = "id" =>
         /\ \A j \in 1..Len(sent') :
                ModeOf(sent'[j]) = 7 => (j = 1 /\ IsVerb(cmd', "S", "s"))
         /\ (CommandStep("S", "s") /\ sent' # <<>>) =>
                /\ ModeOf(sent'[1]) = 7 /\ Len(sent') = 1
                /\ lastScanQual # -1
                /\ Id8Of(sent'[1]) = lastScanQual
         /\ (CommandStep("S", "s") /\ lastScanQual = -1) => sent' = <<>>]_vars

C20_Witness ==
    /\ tool = "id" /\ pc = "probe" /\ caller = "S" /\ id_to_scan = 0
    /\ lastScanQual = 254
    /\ ModeOf(sent[1]) = 7 /\ Id8Of(sent[1]) = 254

====
